---- MODULE Spec2Model ----
(***************************************************************************)
(* Model of chisel_oneliner (chisel/src/cmd_oneliner.rs): the unix-style   *)
(* mode of chisel.  One behaviour of the model is one call of              *)
(* chisel_oneliner(flags); pc is the position inside the function.         *)
(*                                                                         *)
(* Strings that the code only passes along (paths, messages, encodings)    *)
(* are TLA+ strings.  The two specification strings that are parsed are    *)
(* sequences of words, with "," and "=" as separate words.  An Option<T>   *)
(* is a sequence of length 0 (None) or 1 (Some).                           *)
(***************************************************************************)
EXTENDS Integers, Sequences, FiniteSets, TLC

\* ---------------------------------------------------------------- bounds
MaxModules == 2          \* longest module list drawn for oneliner.modules
MaxFire    == 3          \* cap on the length of the recorded fire() history

\* ------------------------------------------------------------ vocabulary
None == <<>>
Some(v) == <<v>>
IsSome(o) == Len(o) = 1
Unwrap(o) == o[1]

ModuleNames == {"a", "b"}
Comma == ","
Equals == "="

RECURSIVE Join(_)
\* the module names of a command line, written as one comma-delimited string
Join(names) ==
    IF Len(names) = 0 THEN <<>>
    ELSE IF Len(names) = 1 THEN <<names[1]>>
    ELSE <<names[1], Comma>> \o Join(Tail(names))

NameLists == UNION {[1..n -> ModuleNames] : n \in 0..MaxModules}

\* module strings with an empty module token
MalformedModuleStrings == {<<"a", Comma>>, <<Comma, "b">>}

OptionStrings ==
    { <<>>,
      <<"k", Equals, "v">>,
      <<"file", Equals, "x">>,
      <<"file", Equals, "x", Comma, "output", Equals, "y">>,
      <<"k">> }

DebuggingValues == {None, Some("true"), Some("false"), Some("yes")}
FileValues      == {None, Some("/tmp/in.wasm")}
OutputValues    == {None, Some("/tmp/out.wasm")}
ModeValues      == {None, Some("bin"), Some("wat"), Some("hex"), Some("yaml")}

EngineErrors   == {"e1"}
PartialResults == {"p1"}
IoErrors       == {"disk"}

\* ----------------------------------------------------------------- state
VARIABLES
    flags,          \* ChiselFlags: flag name -> Option<string>
    cmd_modules,    \* the module names the command line listed, in order
    pc,             \* position in chisel_oneliner
    log_level,      \* logger's global level, None until set
    level_sets,     \* number of calls of logger::set_global_log_level
    options_list,   \* local options_list
    input_file,     \* local input_file
    output_file,    \* local output_file
    parser_calls,   \* arguments of every ChiselConfig::from_args call
    parsed,         \* what from_args returned
    chisel_config,  \* local chisel_config
    driver,         \* Option<configuration owned by the ChiselDriver>
    fires,          \* every state driver.fire() returned, in order
    take_calls,     \* number of driver.take_result() calls
    yielded,        \* the ruleset collection take_result handed over
    results,        \* local results (the ruleset collection, after pops)
    writes,         \* every result.write(mode) call: outcome and encoding
    io_result,      \* local io_result
    fails,          \* every fail(code, message) call
    stderr,         \* lines printed by eprintln! at the end of the run
    status,         \* None while running, Some(exit status) once ended
    panic_message   \* Some(message) once a panic! or expect has fired

vars == <<flags, cmd_modules, pc, log_level, level_sets, options_list,
          input_file, output_file, parser_calls, parsed, chisel_config,
          driver, fires, take_calls, yielded, results, writes, io_result,
          fails, stderr, status, panic_message>>

\* flags.value_of(name)
value_of(f, name) == f[name]

\* ------------------------------------------------- collaborators (config)
RECURSIVE Split(_)
\* the comma-delimited tokens of a string, in order
Split(s) ==
    IF \A i \in 1..Len(s) : s[i] # Comma THEN <<s>>
    ELSE LET i == CHOOSE j \in 1..Len(s) :
                     s[j] = Comma /\ \A k \in 1..(j - 1) : s[k] # Comma
         IN  <<SubSeq(s, 1, i - 1)>> \o Split(SubSeq(s, i + 1, Len(s)))

Tokens(s) == IF Len(s) = 0 THEN <<>> ELSE Split(s)

EmptyMap == [k \in {} |-> ""]
Insert(map, key, value) ==
    [k \in (DOMAIN map) \cup {key} |-> IF k = key THEN value ELSE map[k]]

IsModuleToken(t) == Len(t) = 1 /\ t[1] \notin {Comma, Equals}
IsOptionToken(t) ==
    /\ Len(t) = 3
    /\ t[2] = Equals
    /\ t[1] \notin {Comma, Equals}
    /\ t[3] \notin {Comma, Equals}

\* ChiselConfig::from_args(modules, options): one ruleset per module token,
\* in the order of the module list, the i-th option assignment going to the
\* i-th module; a malformed module or option token is an error.  The empty
\* module list has no module token and parses to a configuration without
\* rulesets, the one parser result on which line 49 indexes out of bounds.
from_args(modules, options) ==
    LET mt == Tokens(modules)
        ot == Tokens(options)
    IN  IF \E i \in 1..Len(mt) : ~IsModuleToken(mt[i])
        THEN [ok |-> FALSE, err |-> "malformed module"]
        ELSE IF (\E i \in 1..Len(ot) : ~IsOptionToken(ot[i])) \/ Len(ot) > Len(mt)
        THEN [ok |-> FALSE, err |-> "malformed option"]
        ELSE [ok |-> TRUE,
              config |-> [i \in 1..Len(mt) |->
                  [name    |-> mt[i][1],
                   options |-> IF i <= Len(ot)
                               THEN Insert(EmptyMap, ot[i][1], ot[i][3])
                               ELSE EmptyMap]]]

\* ------------------------------------------------ the code's expressions
\* log_level_of with any other value silently taken for "false"
log_level_of_default(debugging) ==
    CASE debugging = Some("true")  -> Some(1)
      [] OTHER                     -> Some(0)

\* lines 15-19: log_level, None for the panic arm
log_level_of(debugging) ==
    CASE debugging = Some("true")  -> Some(1)
      [] debugging = Some("false") -> Some(0)
      [] OTHER                     -> None

\* lines 29-34: options_list
options_list_of(f) ==
    IF IsSome(value_of(f, "oneliner.modules.options"))
    THEN Unwrap(value_of(f, "oneliner.modules.options"))
    ELSE <<>>

\* output_file_of with the wrong standard stream as the default
output_file_of_stderr(f) ==
    IF IsSome(value_of(f, "oneliner.output"))
    THEN Unwrap(value_of(f, "oneliner.output"))
    ELSE "/dev/stderr"

\* lines 40-44: output_file
output_file_of(f) ==
    IF IsSome(value_of(f, "oneliner.output"))
    THEN Unwrap(value_of(f, "oneliner.output"))
    ELSE "/dev/stdout"

\* inject with the two inserts made into every ruleset
inject_all(config, in, out) ==
    [i \in 1..Len(config) |->
        [config[i] EXCEPT !.options = Insert(Insert(@, "file", in), "output", out)]]

\* inject with the first ruleset taken out, bound, and pushed back at the end
inject_push_back(config, in, out) ==
    Tail(config) \o
    <<[config[1] EXCEPT !.options = Insert(Insert(@, "file", in), "output", out)]>>

\* lines 49-56: the two inserts into rulesets_mut()[0].1.options_mut()
inject(config, in, out) ==
    [config EXCEPT ![1].options = Insert(Insert(@, "file", in), "output", out)]

\* loop_arm with the catch-all arm falling through to the next iteration
loop_arm_continue(state) ==
    CASE state.tag = "Error" -> "fail"
      [] state.tag = "Done"  -> "break"
      [] OTHER               -> "continue"

\* loop_arm with the break of the Done arm left out
loop_arm_no_break(state) ==
    CASE state.tag = "Error" -> "fail"
      [] state.tag = "Done"  -> "continue"
      [] OTHER               -> "panic"

\* loop_arm with the Error arm reporting and trying again
loop_arm_retry(state) ==
    CASE state.tag = "Error" -> "continue"
      [] state.tag = "Done"  -> "break"
      [] OTHER               -> "panic"

\* lines 67-73: what the loop body does with the state fire() returned
loop_arm(state) ==
    CASE state.tag = "Error" -> "fail"
      [] state.tag = "Done"  -> "break"
      [] OTHER               -> "panic"

\* pop with the last element read but left in the collection
pop_last(v) == [popped |-> v[Len(v)], rest |-> v]

\* lines 85, 89, 93: Vec::pop, the last element and the rest
pop(v) == [popped |-> v[Len(v)], rest |-> SubSeq(v, 1, Len(v) - 1)]

\* encoding_of with the "wat" arm a copy of the "bin" arm
encoding_of_copied_arm(mode) ==
    CASE mode = Some("bin") -> Some("bin")
      [] mode = Some("wat") -> Some("bin")
      [] mode = Some("hex") -> Some("hex")
      [] OTHER              -> None

\* lines 83-97: the encoding handed to write, None for the panic arm
encoding_of(mode) ==
    CASE mode = Some("bin") -> Some("bin")
      [] mode = Some("wat") -> Some("wat")
      [] mode = Some("hex") -> Some("hex")
      [] OTHER              -> None

\* io_arm with Ok(false) taken for a failure
io_arm_no_change_fails(io) ==
    CASE io.tag = "Ok" /\ io.changed  -> [fail |-> FALSE, line |-> "Successfully wrote output to file."]
      [] OTHER                        -> [fail |-> TRUE,  line |-> "failed to write output to file: "]

\* lines 99-106: the arm taken for io_result
io_arm(io) ==
    CASE io.tag = "Ok" /\ io.changed  -> [fail |-> FALSE, line |-> "Successfully wrote output to file."]
      [] io.tag = "Ok" /\ ~io.changed -> [fail |-> FALSE, line |-> "No changes to write."]
      [] OTHER                        -> [fail |-> TRUE,  line |-> "failed to write output to file: "]

\* ------------------------------------------------------------------ Init
Init ==
    /\ cmd_modules \in NameLists
    /\ \E d \in DebuggingValues, o \in {None} \cup {Some(x) : x \in OptionStrings},
          fi \in FileValues, out \in OutputValues, mo \in ModeValues,
          m \in IF cmd_modules = <<>>
                THEN {None, Some(<<>>)} \cup {Some(x) : x \in MalformedModuleStrings}
                ELSE {Some(Join(cmd_modules))} :
          flags = [n \in {"util.debugging", "oneliner.modules",
                          "oneliner.modules.options", "oneliner.file",
                          "oneliner.output", "output.mode"} |->
                     CASE n = "util.debugging"           -> d
                       [] n = "oneliner.modules"         -> m
                       [] n = "oneliner.modules.options" -> o
                       [] n = "oneliner.file"            -> fi
                       [] n = "oneliner.output"          -> out
                       [] OTHER                          -> mo]
    /\ pc = "debugging"
    /\ log_level = None
    /\ level_sets = 0
    /\ options_list = None
    /\ input_file = None
    /\ output_file = None
    /\ parser_calls = <<>>
    /\ parsed = None
    /\ chisel_config = None
    /\ driver = None
    /\ fires = <<>>
    /\ take_calls = 0
    /\ yielded = None
    /\ results = <<>>
    /\ writes = <<>>
    /\ io_result = None
    /\ fails = <<>>
    /\ stderr = <<>>
    /\ status = None
    /\ panic_message = None

\* ------------------------------------------------------- ways of ending
input == <<flags, cmd_modules>>

\* crate::fail(code, message): print the message and end the process with
\* the exit code; it does not return.
fail(code, message) ==
    /\ fails' = Append(fails, [code |-> code, message |-> message])
    /\ status' = Some(code)
    /\ pc' = "exited"
    /\ UNCHANGED panic_message

\* panic!(message) / expect(message)
panic(message) ==
    /\ panic_message' = Some(message)
    /\ pc' = "panicked"
    /\ UNCHANGED <<fails, status>>

\* fall through to the next statement
goto(label) ==
    /\ pc' = label
    /\ UNCHANGED <<fails, status, panic_message>>

\* ------------------------------------------------------- collaborators
\* DriverState, as driver.fire() may return it
DriverStates ==
    {[tag |-> "Ready", err |-> "", partial |-> ""],
     [tag |-> "Done",  err |-> "", partial |-> ""]}
    \cup {[tag |-> "Error", err |-> e, partial |-> p] :
              e \in EngineErrors, p \in PartialResults}

\* Result<bool, io::Error>, as result.write(mode) may return it
IoResults ==
    {[tag |-> "Ok", changed |-> TRUE,  err |-> ""],
     [tag |-> "Ok", changed |-> FALSE, err |-> ""]}
    \cup {[tag |-> "Err", changed |-> FALSE, err |-> e] : e \in IoErrors}

\* the ruleset collections take_result may hand over for a configuration:
\* outcomes of its first k rulesets, in the configuration's order
ResultSets(config) ==
    {[i \in 1..k |-> [ruleset |-> i, name |-> config[i].name]] :
         k \in 0..Len(config)}

\* --------------------------------------------------------------- actions
\* lines 15-20
SetLogLevel ==
    /\ pc = "debugging"
    /\ LET level == log_level_of(value_of(flags, "util.debugging"))
       IN  IF IsSome(level)
           THEN /\ log_level' = level
                /\ level_sets' = level_sets + 1
                /\ goto("modules")
           ELSE /\ panic("util.debugging must be set 'true' or 'false'")
                /\ UNCHANGED <<log_level, level_sets>>
    /\ UNCHANGED <<input, options_list, input_file, output_file, parser_calls,
                   parsed, chisel_config, driver, fires, take_calls, yielded,
                   results, writes, io_result, stderr>>

\* MatchModules with "just exit" taken as a plain return of 0
MatchModules_just_exit ==
    /\ pc = "modules"
    /\ IF IsSome(value_of(flags, "oneliner.modules"))
       THEN /\ options_list' = Some(options_list_of(flags))
            /\ goto("file")
       ELSE /\ status' = Some(0)
            /\ pc' = "returned"
            /\ UNCHANGED <<fails, panic_message, options_list>>
    /\ UNCHANGED <<input, log_level, level_sets, input_file, output_file,
                   parser_calls, parsed, chisel_config, driver, fires,
                   take_calls, yielded, results, writes, io_result, stderr>>

\* lines 25-34 and 109
MatchModules ==
    /\ pc = "modules"
    /\ IF IsSome(value_of(flags, "oneliner.modules"))
       THEN /\ options_list' = Some(options_list_of(flags))
            /\ goto("file")
       ELSE /\ fail(1, <<"no modules specified">>)
            /\ UNCHANGED options_list
    /\ UNCHANGED <<input, log_level, level_sets, input_file, output_file,
                   parser_calls, parsed, chisel_config, driver, fires,
                   take_calls, yielded, results, writes, io_result, stderr>>

\* InputFile with unwrap_or_default in place of unwrap_or_else(fail)
InputFile_default ==
    /\ pc = "file"
    /\ input_file' = IF IsSome(value_of(flags, "oneliner.file"))
                     THEN value_of(flags, "oneliner.file") ELSE Some("")
    /\ output_file' = Some(output_file_of(flags))
    /\ goto("from_args")
    /\ UNCHANGED <<input, log_level, level_sets, options_list, parser_calls,
                   parsed, chisel_config, driver, fires, take_calls, yielded,
                   results, writes, io_result, stderr>>

\* InputFile with the specification strings parsed before the file is looked up
InputFile_parse_first ==
    /\ pc = "file"
    /\ LET module_list == Unwrap(value_of(flags, "oneliner.modules"))
           r == from_args(module_list, Unwrap(options_list))
       IN  IF ~r.ok
           THEN /\ parser_calls' = Append(parser_calls,
                                          [modules |-> module_list,
                                           options |-> Unwrap(options_list)])
                /\ fail(1, <<"Failed to load configuration: ", r.err>>)
                /\ UNCHANGED <<input_file, output_file>>
           ELSE IF IsSome(value_of(flags, "oneliner.file"))
           THEN /\ input_file' = value_of(flags, "oneliner.file")
                /\ output_file' = Some(output_file_of(flags))
                /\ goto("from_args")
                /\ UNCHANGED parser_calls
           ELSE /\ fail(1, <<"No file specified">>)
                /\ UNCHANGED <<input_file, output_file, parser_calls>>
    /\ UNCHANGED <<input, log_level, level_sets, options_list,
                   parsed, chisel_config, driver, fires, take_calls, yielded,
                   results, writes, io_result, stderr>>

\* lines 36-44
InputFile ==
    /\ pc = "file"
    /\ IF IsSome(value_of(flags, "oneliner.file"))
       THEN /\ input_file' = value_of(flags, "oneliner.file")
            /\ output_file' = Some(output_file_of(flags))
            /\ goto("from_args")
       ELSE /\ fail(1, <<"No file specified">>)
            /\ UNCHANGED <<input_file, output_file>>
    /\ UNCHANGED <<input, log_level, level_sets, options_list, parser_calls,
                   parsed, chisel_config, driver, fires, take_calls, yielded,
                   results, writes, io_result, stderr>>

\* FromArgs with the bindings skipped when there is no first ruleset
FromArgs_skip_empty ==
    /\ pc = "from_args"
    /\ LET module_list == Unwrap(value_of(flags, "oneliner.modules"))
           r == from_args(module_list, Unwrap(options_list))
       IN  /\ parser_calls' = Append(parser_calls,
                                     [modules |-> module_list,
                                      options |-> Unwrap(options_list)])
           /\ parsed' = Some(r)
           /\ IF ~r.ok
              THEN /\ fail(1, <<"Failed to load configuration: ", r.err>>)
                   /\ UNCHANGED chisel_config
              ELSE IF Len(r.config) = 0
              THEN /\ chisel_config' = Some(r.config)
                   /\ goto("new")
              ELSE /\ chisel_config' =
                          Some(inject(r.config, Unwrap(input_file), Unwrap(output_file)))
                   /\ goto("new")
    /\ UNCHANGED <<input, log_level, level_sets, options_list, input_file,
                   output_file, driver, fires, take_calls, yielded, results,
                   writes, io_result, stderr>>

\* FromArgs with a parse error reported and an empty default ruleset used
FromArgs_default_on_error ==
    /\ pc = "from_args"
    /\ LET module_list == Unwrap(value_of(flags, "oneliner.modules"))
           r == from_args(module_list, Unwrap(options_list))
           config == IF r.ok THEN r.config
                     ELSE <<[name |-> "default", options |-> EmptyMap]>>
       IN  /\ parser_calls' = Append(parser_calls,
                                     [modules |-> module_list,
                                      options |-> Unwrap(options_list)])
           /\ parsed' = Some(r)
           /\ IF Len(config) = 0
              THEN /\ panic("index out of bounds")
                   /\ UNCHANGED chisel_config
              ELSE /\ chisel_config' =
                          Some(inject(config, Unwrap(input_file), Unwrap(output_file)))
                   /\ goto("new")
    /\ UNCHANGED <<input, log_level, level_sets, options_list, input_file,
                   output_file, driver, fires, take_calls, yielded, results,
                   writes, io_result, stderr>>

\* lines 46-60
FromArgs ==
    /\ pc = "from_args"
    /\ LET module_list == Unwrap(value_of(flags, "oneliner.modules"))
           r == from_args(module_list, Unwrap(options_list))
       IN  /\ parser_calls' = Append(parser_calls,
                                     [modules |-> module_list,
                                      options |-> Unwrap(options_list)])
           /\ parsed' = Some(r)
           /\ IF ~r.ok
              THEN /\ fail(1, <<"Failed to load configuration: ", r.err>>)
                   /\ UNCHANGED chisel_config
              ELSE IF Len(r.config) = 0
              THEN /\ panic("index out of bounds")
                   /\ UNCHANGED chisel_config
              ELSE /\ chisel_config' =
                          Some(inject(r.config, Unwrap(input_file), Unwrap(output_file)))
                   /\ goto("new")
    /\ UNCHANGED <<input, log_level, level_sets, options_list, input_file,
                   output_file, driver, fires, take_calls, yielded, results,
                   writes, io_result, stderr>>

\* NewDriver with output.mode validated before the engine is started
NewDriver_checks_mode ==
    /\ pc = "new"
    /\ IF IsSome(encoding_of(value_of(flags, "output.mode")))
       THEN /\ driver' = chisel_config
            /\ goto("fire")
       ELSE /\ panic("CLI parser ensures value can only be one of the above")
            /\ UNCHANGED driver
    /\ UNCHANGED <<input, log_level, level_sets, options_list, input_file,
                   output_file, parser_calls, parsed, chisel_config, fires,
                   take_calls, yielded, results, writes, io_result, stderr>>

\* line 64
NewDriver ==
    /\ pc = "new"
    /\ driver' = chisel_config
    /\ goto("fire")
    /\ UNCHANGED <<input, log_level, level_sets, options_list, input_file,
                   output_file, parser_calls, parsed, chisel_config, fires,
                   take_calls, yielded, results, writes, io_result, stderr>>

\* Fire with the second component of Error formatted into the message
Fire_partial_state ==
    /\ pc = "fire"
    /\ Len(fires) < MaxFire
    /\ \E s \in DriverStates :
          /\ fires' = Append(fires, s)
          /\ CASE loop_arm(s) = "fail"  -> fail(1, <<"runtime error: ", s.partial>>)
               [] loop_arm(s) = "break" -> goto("take_result")
               [] loop_arm(s) = "panic" -> panic("Should never return READY")
               [] OTHER                 -> goto("fire")
    /\ UNCHANGED <<input, log_level, level_sets, options_list, input_file,
                   output_file, parser_calls, parsed, chisel_config, driver,
                   take_calls, yielded, results, writes, io_result, stderr>>

\* lines 66-74: one pass of the loop
Fire ==
    /\ pc = "fire"
    /\ Len(fires) < MaxFire
    /\ \E s \in DriverStates :
          /\ fires' = Append(fires, s)
          /\ CASE loop_arm(s) = "fail"  -> fail(1, <<"runtime error: ", s.err>>)
               [] loop_arm(s) = "break" -> goto("take_result")
               [] loop_arm(s) = "panic" -> panic("Should never return READY")
               [] OTHER                 -> goto("fire")
    /\ UNCHANGED <<input, log_level, level_sets, options_list, input_file,
                   output_file, parser_calls, parsed, chisel_config, driver,
                   take_calls, yielded, results, writes, io_result, stderr>>

\* lines 76-82
TakeResult ==
    /\ pc = "take_result"
    /\ take_calls' = take_calls + 1
    /\ \E rs \in ResultSets(Unwrap(driver)) :
          /\ yielded' = Some(rs)
          /\ results' = rs
    /\ stderr' = Append(stderr, "results")
    /\ goto("mode")
    /\ UNCHANGED <<input, log_level, level_sets, options_list, input_file,
                   output_file, parser_calls, parsed, chisel_config, driver,
                   fires, writes, io_result>>

\* lines 83-97
MatchOutputMode ==
    /\ pc = "mode"
    /\ LET encoding == encoding_of(value_of(flags, "output.mode"))
       IN  IF ~IsSome(encoding)
           THEN /\ panic("CLI parser ensures value can only be one of the above")
                /\ UNCHANGED <<results, writes, io_result>>
           ELSE IF Len(results) = 0
           THEN /\ panic("One ruleset was executed")
                /\ UNCHANGED <<results, writes, io_result>>
           ELSE /\ results' = pop(results).rest
                /\ writes' = Append(writes, [outcome  |-> pop(results).popped,
                                             encoding |-> Unwrap(encoding)])
                /\ \E io \in IoResults : io_result' = Some(io)
                /\ goto("io_result")
    /\ UNCHANGED <<input, log_level, level_sets, options_list, input_file,
                   output_file, parser_calls, parsed, chisel_config, driver,
                   fires, take_calls, yielded, stderr>>

\* MatchIoResult with the write failure given its own exit code
MatchIoResult_code_2 ==
    /\ pc = "io_result"
    /\ LET arm == io_arm(Unwrap(io_result))
       IN  IF arm.fail
           THEN /\ fail(2, <<arm.line, Unwrap(io_result).err>>)
                /\ UNCHANGED stderr
           ELSE /\ stderr' = Append(stderr, arm.line)
                /\ status' = Some(0)
                /\ pc' = "returned"
                /\ UNCHANGED <<fails, panic_message>>
    /\ UNCHANGED <<input, log_level, level_sets, options_list, input_file,
                   output_file, parser_calls, parsed, chisel_config, driver,
                   fires, take_calls, yielded, results, writes, io_result>>

\* MatchIoResult with the no-change case going back to write again
MatchIoResult_write_again ==
    /\ pc = "io_result"
    /\ LET arm == io_arm(Unwrap(io_result))
       IN  IF arm.fail
           THEN /\ fail(1, <<arm.line, Unwrap(io_result).err>>)
                /\ UNCHANGED stderr
           ELSE IF Unwrap(io_result).changed
           THEN /\ stderr' = Append(stderr, arm.line)
                /\ status' = Some(0)
                /\ pc' = "returned"
                /\ UNCHANGED <<fails, panic_message>>
           ELSE /\ stderr' = Append(stderr, arm.line)
                /\ goto("mode")
    /\ UNCHANGED <<input, log_level, level_sets, options_list, input_file,
                   output_file, parser_calls, parsed, chisel_config, driver,
                   fires, take_calls, yielded, results, writes, io_result>>

\* lines 99-107
MatchIoResult ==
    /\ pc = "io_result"
    /\ LET arm == io_arm(Unwrap(io_result))
       IN  IF arm.fail
           THEN /\ fail(1, <<arm.line, Unwrap(io_result).err>>)
                /\ UNCHANGED stderr
           ELSE /\ stderr' = Append(stderr, arm.line)
                /\ status' = Some(0)
                /\ pc' = "returned"
                /\ UNCHANGED <<fails, panic_message>>
    /\ UNCHANGED <<input, log_level, level_sets, options_list, input_file,
                   output_file, parser_calls, parsed, chisel_config, driver,
                   fires, take_calls, yielded, results, writes, io_result>>

Next ==
    \/ SetLogLevel
    \/ MatchModules
    \/ InputFile
    \/ FromArgs
    \/ NewDriver
    \/ Fire
    \/ TakeResult
    \/ MatchOutputMode
    \/ MatchIoResult

Spec == Init /\ [][Next]_vars

\* ================================================================ claims
Ended == pc \in {"returned", "exited", "panicked"}
DebuggingValid == value_of(flags, "util.debugging") \in {Some("true"), Some("false")}
ModulesAbsent == value_of(flags, "oneliner.modules") = None
FileAbsent == value_of(flags, "oneliner.file") = None
NothingRun ==
    /\ driver = None
    /\ fires = <<>>
    /\ take_calls = 0
    /\ writes = <<>>

\* C1 as stated: every run without oneliner.modules ends with exit status 1
\* and "no modules specified", having never called the parser, constructed a
\* driver, advanced the engine or attempted a write.
C1_AsStated ==
    (ModulesAbsent /\ Ended) =>
        /\ status = Some(1)
        /\ fails = <<[code |-> 1, message |-> <<"no modules specified">>]>>
        /\ parser_calls = <<>>
        /\ NothingRun

\* C1 amended: a run without oneliner.modules never calls the parser,
\* constructs a driver, advances the engine or writes, and never gets past
\* the oneliner.modules check; when util.debugging is "true" or "false" it
\* ends with exit status 1 and "no modules specified".
C1_NoModules ==
    ModulesAbsent =>
        /\ parser_calls = <<>>
        /\ NothingRun
        /\ pc \in {"debugging", "modules", "exited", "panicked"}
        /\ status # Some(0)
        /\ (DebuggingValid /\ Ended) =>
              /\ pc = "exited"
              /\ status = Some(1)
              /\ fails = <<[code |-> 1, message |-> <<"no modules specified">>]>>

C1_Witness ==
    /\ ModulesAbsent
    /\ pc = "exited"
    /\ status = Some(1)
    /\ fails = <<[code |-> 1, message |-> <<"no modules specified">>]>>

\* C2 as stated: every run with oneliner.modules but without oneliner.file
\* ends with exit status 1 and "No file specified", with no driver, no fire
\* call and no write.
C2_AsStated ==
    (~ModulesAbsent /\ FileAbsent /\ Ended) =>
        /\ status = Some(1)
        /\ fails = <<[code |-> 1, message |-> <<"No file specified">>]>>
        /\ NothingRun

\* C2 amended: a run with oneliner.modules but without oneliner.file never
\* constructs or advances the engine and never writes; when util.debugging is
\* "true" or "false" it ends with exit status 1 and "No file specified".
C2_NoFile ==
    (~ModulesAbsent /\ FileAbsent) =>
        /\ NothingRun
        /\ pc \in {"debugging", "modules", "file", "exited", "panicked"}
        /\ status # Some(0)
        /\ (DebuggingValid /\ Ended) =>
              /\ pc = "exited"
              /\ status = Some(1)
              /\ fails = <<[code |-> 1, message |-> <<"No file specified">>]>>

C2_Witness ==
    /\ ~ModulesAbsent
    /\ FileAbsent
    /\ pc = "exited"
    /\ fails = <<[code |-> 1, message |-> <<"No file specified">>]>>

LastFire == fires[Len(fires)]
FireReturned(tag) == fires # <<>> /\ LastFire.tag = tag

C4_NoFireAfterTerminal ==
    \A i \in 1..Len(fires) :
        fires[i].tag \in {"Done", "Error"} => i = Len(fires)

C4_Witness ==
    /\ FireReturned("Done")
    /\ pc = "returned"
    /\ Len(fires) = 1

\* C5: when an advancement call returns Error the run ends at once through
\* fail with exit status 1 and the engine's error in the message; there is no
\* further fire call, no take_result and no write.
C5_ErrorIsFatal ==
    \A i \in 1..Len(fires) :
        fires[i].tag = "Error" =>
            /\ i = Len(fires)
            /\ pc = "exited"
            /\ status = Some(1)
            /\ fails = <<[code |-> 1,
                          message |-> <<"runtime error: ", fires[i].err>>]>>
            /\ take_calls = 0
            /\ yielded = None
            /\ writes = <<>>
            /\ io_result = None

C5_Witness ==
    /\ FireReturned("Error")
    /\ pc = "exited"
    /\ status = Some(1)

InputPath == Unwrap(value_of(flags, "oneliner.file"))
OutputTarget ==
    IF value_of(flags, "oneliner.output") = None
    THEN "/dev/stdout"
    ELSE Unwrap(value_of(flags, "oneliner.output"))

\* C6: after injection the configuration has the rulesets the parser
\* produced, in the same number and order; the first ruleset's option map is
\* its parsed map with "file" set to the input path and "output" set to the
\* output target and every other key unchanged; every other ruleset's option
\* map is the parsed one.  The driver is constructed with that configuration.
C6_InjectFirstOnly ==
    IsSome(chisel_config) =>
        LET before == Unwrap(parsed).config
            after  == Unwrap(chisel_config)
        IN  /\ Len(before) >= 1
            /\ Len(after) = Len(before)
            /\ \A i \in 1..Len(before) : after[i].name = before[i].name
            /\ DOMAIN after[1].options =
                   (DOMAIN before[1].options) \cup {"file", "output"}
            /\ after[1].options["file"] = InputPath
            /\ after[1].options["output"] = OutputTarget
            /\ \A k \in (DOMAIN before[1].options) \ {"file", "output"} :
                   after[1].options[k] = before[1].options[k]
            /\ \A i \in 2..Len(before) : after[i].options = before[i].options
            /\ IsSome(driver) => driver = chisel_config

C6_Witness ==
    /\ IsSome(driver)
    /\ Len(Unwrap(chisel_config)) >= 2
    /\ "file" \in DOMAIN Unwrap(parsed).config[1].options
    /\ "output" \in DOMAIN Unwrap(parsed).config[2].options
    /\ Unwrap(chisel_config)[1].options["file"] = "/tmp/in.wasm"

IoIs(tag, changed) ==
    /\ IsSome(io_result)
    /\ Unwrap(io_result).tag = tag
    /\ Unwrap(io_result).changed = changed

\* C7: once the write's result has been matched, Ok(true) and Ok(false) both
\* make the run return 0, each with its own report line and after exactly
\* one write call; Err makes the run end through fail with exit status 1.
C7_IoResultToExit ==
    (IsSome(io_result) /\ pc # "io_result") =>
        /\ Len(writes) = 1
        /\ IoIs("Ok", TRUE) =>
              /\ pc = "returned" /\ status = Some(0) /\ fails = <<>>
              /\ stderr[Len(stderr)] = "Successfully wrote output to file."
        /\ IoIs("Ok", FALSE) =>
              /\ pc = "returned" /\ status = Some(0) /\ fails = <<>>
              /\ stderr[Len(stderr)] = "No changes to write."
        /\ IoIs("Err", FALSE) =>
              /\ pc = "exited" /\ status = Some(1)
              /\ fails = <<[code |-> 1,
                            message |-> <<"failed to write output to file: ",
                                          Unwrap(io_result).err>>]>>

C7_Witness ==
    /\ IoIs("Ok", FALSE)
    /\ pc = "returned"
    /\ status = Some(0)
    /\ Len(writes) = 1

\* C8 as stated: every run that does not return 0 ends through fail(1, ..),
\* and a run returns 0 only after a write that returned success.
C8_AsStated ==
    /\ (Ended /\ status # Some(0)) =>
          (pc = "exited" /\ Len(fails) = 1 /\ fails[1].code = 1)
    /\ status = Some(0) =>
          (Len(writes) = 1 /\ (IoIs("Ok", TRUE) \/ IoIs("Ok", FALSE)))

\* C8 amended: fail is only ever called with exit code 1 and at most once; a
\* run that does not return 0 either ends through fail(1, ..) with exit
\* status 1 or aborts in a panic without calling fail; a run returns 0 only
\* after its single write returned Ok.
C8_FailOrPanic ==
    /\ Len(fails) <= 1
    /\ \A i \in 1..Len(fails) : fails[i].code = 1
    /\ pc = "exited" <=> Len(fails) = 1
    /\ pc = "exited" => status = Some(1)
    /\ pc = "panicked" <=> IsSome(panic_message)
    /\ pc = "panicked" => (status = None /\ fails = <<>>)
    /\ (Ended /\ status # Some(0)) => pc \in {"exited", "panicked"}
    /\ status = Some(0) =>
          /\ pc = "returned"
          /\ Len(writes) = 1
          /\ (IoIs("Ok", TRUE) \/ IoIs("Ok", FALSE))

C8_Witness ==
    /\ pc = "exited"
    /\ IoIs("Err", FALSE)
    /\ fails[1].code = 1

ValidModes == {Some("bin"), Some("wat"), Some("hex")}
EndToEnd ==
    /\ Ended
    /\ ~ModulesAbsent
    /\ ~FileAbsent
    /\ IsSome(parsed)
    /\ Unwrap(parsed).ok
    /\ FireReturned("Done")
    /\ value_of(flags, "output.mode") \in ValidModes
Defaults ==
    /\ (IsSome(chisel_config) /\ value_of(flags, "oneliner.output") = None) =>
          Unwrap(chisel_config)[1].options["output"] = "/dev/stdout"
    /\ (parser_calls # <<>> /\ value_of(flags, "oneliner.modules.options") = None) =>
          parser_calls[1].options = <<>>

\* C9 as stated: the defaults hold, and every run with modules and file
\* present, a successful parse, an engine that reached Done and a mode in
\* {bin, wat, hex} writes exactly one outcome in that encoding and returns 0.
C9_AsStated ==
    /\ Defaults
    /\ EndToEnd =>
          /\ Len(writes) = 1
          /\ writes[1].encoding = Unwrap(value_of(flags, "output.mode"))
          /\ status = Some(0)

\* C9 amended: the defaults hold, and on such a run whose engine yields a
\* non-empty ruleset collection exactly one write is attempted, in the
\* requested encoding; the run returns 0 when that write returns Ok and ends
\* with exit status 1 when it returns Err.  With an empty collection the run
\* panics without a write.
C9_DefaultsAndEndToEnd ==
    /\ Defaults
    /\ EndToEnd =>
          IF Unwrap(yielded) = <<>>
          THEN pc = "panicked" /\ writes = <<>> /\ status = None
          ELSE /\ Len(writes) = 1
               /\ writes[1].encoding = Unwrap(value_of(flags, "output.mode"))
               /\ Unwrap(io_result).tag = "Ok" => (pc = "returned" /\ status = Some(0))
               /\ Unwrap(io_result).tag = "Err" => (pc = "exited" /\ status = Some(1))

C9_Witness ==
    /\ cmd_modules = <<"a", "b">>
    /\ value_of(flags, "oneliner.modules.options") = None
    /\ value_of(flags, "oneliner.output") = None
    /\ value_of(flags, "output.mode") = Some("hex")
    /\ parser_calls = <<[modules |-> <<"a", Comma, "b">>, options |-> <<>>]>>
    /\ IsSome(driver)
    /\ Unwrap(driver)[1].options["output"] = "/dev/stdout"
    /\ writes = <<[outcome |-> [ruleset |-> 2, name |-> "b"], encoding |-> "hex"]>>
    /\ pc = "returned"
    /\ status = Some(0)

\* C10: the module names of the configuration handed to the engine, read in
\* order, are the module names of the command line's module list, in its
\* order.
C10_ModuleOrder ==
    IsSome(driver) =>
        [i \in 1..Len(Unwrap(driver)) |-> Unwrap(driver)[i].name] = cmd_modules

C10_Witness ==
    /\ IsSome(driver)
    /\ cmd_modules = <<"a", "b">>
    /\ Unwrap(driver)[1].name = "a"
    /\ Unwrap(driver)[2].name = "b"

\* C11 as stated: the outcome removed from the result collection and passed
\* to write belongs to the first ruleset, the one that received the "file"
\* and "output" bindings.
C11_AsStated ==
    \A i \in 1..Len(writes) : writes[i].outcome.ruleset = 1

\* What the code does instead: the outcome written is the last one of the
\* collection take_result handed over.
C11_LastIsWritten ==
    \A i \in 1..Len(writes) :
        writes[i].outcome = Unwrap(yielded)[Len(Unwrap(yielded))]

\* C12: the phases follow one another.  The parser has returned a
\* configuration before the driver exists, the driver exists before any fire
\* call, every fire call precedes take_result, take_result (after Done)
\* precedes the write, no phase is re-entered once a later one has begun, no
\* run makes two writes, and a run that got to the match on the write's
\* result made exactly one.
PhaseOrder ==
    /\ IsSome(driver) =>
          (Len(parser_calls) = 1 /\ IsSome(parsed) /\ Unwrap(parsed).ok)
    /\ fires # <<>> => IsSome(driver)
    /\ take_calls > 0 => (take_calls = 1 /\ FireReturned("Done"))
    /\ writes # <<>> => (take_calls = 1 /\ IsSome(yielded))
    /\ Len(writes) <= 1
    /\ (IsSome(io_result) \/ status = Some(0)) => Len(writes) = 1
PhaseStep ==
    /\ IsSome(driver) => (parser_calls' = parser_calls /\ driver' = driver)
    /\ take_calls > 0 => (fires' = fires /\ take_calls' = take_calls)
    /\ writes # <<>> => (writes' = writes /\ yielded' = yielded)
C12_PhasesInOrder ==
    [](PhaseOrder) /\ [][PhaseStep]_vars

C12_Witness ==
    /\ pc = "returned"
    /\ Len(parser_calls) = 1
    /\ Len(fires) = 1
    /\ take_calls = 1
    /\ Len(writes) = 1
    /\ Len(Unwrap(yielded)) = 2

ParsedOk == IsSome(parsed) /\ Unwrap(parsed).ok
ParsedErr == IsSome(parsed) /\ ~Unwrap(parsed).ok

\* C13: whenever the driver is constructed its configuration holds at least
\* one ruleset and the first ruleset's option map has the keys "file" and
\* "output"; a successful parse that yields no ruleset ends the run in the
\* panic of the index at line 49, before a driver exists.
C13_AtLeastOneRuleset ==
    /\ IsSome(driver) =>
          /\ Len(Unwrap(driver)) >= 1
          /\ {"file", "output"} \subseteq DOMAIN Unwrap(driver)[1].options
    /\ (ParsedOk /\ Len(Unwrap(parsed).config) = 0) =>
          /\ pc = "panicked"
          /\ chisel_config = None
          /\ NothingRun

C13_Witness ==
    /\ IsSome(driver)
    /\ Len(Unwrap(driver)) = 1
    /\ DOMAIN Unwrap(driver)[1].options = {"file", "output"}

\* C14: whenever from_args returned an error the run has ended through fail
\* with exit status 1 and the parser's description; no binding was injected,
\* no driver constructed, the engine never advanced and nothing written.
C14_ParseFailureIsFatal ==
    ParsedErr =>
        /\ pc = "exited"
        /\ status = Some(1)
        /\ fails = <<[code |-> 1,
                      message |-> <<"Failed to load configuration: ",
                                    Unwrap(parsed).err>>]>>
        /\ chisel_config = None
        /\ NothingRun
        /\ yielded = None
        /\ io_result = None

C14_Witness ==
    /\ ParsedErr
    /\ Unwrap(parsed).err = "malformed option"
    /\ pc = "exited"
    /\ status = Some(1)

LocalsUnset ==
    /\ options_list = None
    /\ input_file = None
    /\ output_file = None
    /\ parser_calls = <<>>
    /\ fails = <<>>

\* C15: the global log level is set at most once, as the first step of the
\* run and before any other flag is read: to 1 for util.debugging = "true"
\* and 0 for "false", and it keeps that value; for any other or absent value
\* the run ends in a panic with no level set, no parse, no engine call and
\* no write.
C15_LogLevelOnce ==
    /\ level_sets <= 1
    /\ level_sets = 1 <=> IsSome(log_level)
    /\ pc = "debugging" => (level_sets = 0 /\ LocalsUnset /\ NothingRun)
    /\ (pc # "debugging" /\ value_of(flags, "util.debugging") = Some("true")) =>
          log_level = Some(1)
    /\ (pc # "debugging" /\ value_of(flags, "util.debugging") = Some("false")) =>
          log_level = Some(0)
    /\ ~DebuggingValid =>
          /\ pc \in {"debugging", "panicked"}
          /\ log_level = None
          /\ LocalsUnset
          /\ NothingRun
          /\ status = None

C15_Witness ==
    /\ value_of(flags, "util.debugging") = Some("true")
    /\ log_level = Some(1)
    /\ level_sets = 1
    /\ pc = "returned"

\* C16: every write call is handed exactly the requested output.mode, one of
\* "bin", "wat", "hex"; with output.mode absent or outside that set no
\* outcome is removed from the result collection, no write is made and the
\* run does not return 0.
C16_EncodingIsMode ==
    /\ \A i \in 1..Len(writes) :
          /\ value_of(flags, "output.mode") \in ValidModes
          /\ writes[i].encoding = Unwrap(value_of(flags, "output.mode"))
    /\ value_of(flags, "output.mode") \notin ValidModes =>
          /\ writes = <<>>
          /\ io_result = None
          /\ IsSome(yielded) => results = Unwrap(yielded)
          /\ status # Some(0)
          /\ pc # "returned"

C16_Witness ==
    /\ value_of(flags, "output.mode") = Some("wat")
    /\ Len(writes) = 1
    /\ writes[1].encoding = "wat"
    /\ pc = "returned"

Contains(message, text) == \E i \in 1..Len(message) : message[i] = text

C18_OneOutcomeConsumed ==
    /\ writes # <<>> =>
          /\ Len(writes) = 1
          /\ Len(results) = Len(Unwrap(yielded)) - 1
          /\ \A i \in 1..Len(results) : results[i] # writes[1].outcome
          /\ results \o <<writes[1].outcome>> = Unwrap(yielded)
    /\ (IsSome(yielded) /\ writes = <<>>) => results = Unwrap(yielded)
    /\ yielded = Some(<<>>) =>
          /\ writes = <<>>
          /\ io_result = None
          /\ status = None

C18_Witness ==
    /\ Len(writes) = 1
    /\ Len(Unwrap(yielded)) = 2
    /\ Len(results) = 1
    /\ pc = "returned"

ModePanic == Some("CLI parser ensures value can only be one of the above")
OtherFlagsValid ==
    /\ DebuggingValid
    /\ ~ModulesAbsent
    /\ ~FileAbsent
    /\ LET r == from_args(Unwrap(value_of(flags, "oneliner.modules")),
                          options_list_of(flags))
       IN  r.ok /\ Len(r.config) >= 1

\* C19: output.mode is matched only after the engine returned Done and the
\* result was taken: a run that is aborted for its output.mode has parsed the
\* configuration, constructed the driver, fired it to Done and called
\* take_result; a run whose other flags are valid and whose output.mode is
\* absent or outside {bin, wat, hex} never ends before the engine was fired.
C19_ModeCheckedLast ==
    /\ panic_message = ModePanic =>
          /\ Len(parser_calls) = 1
          /\ ParsedOk
          /\ IsSome(driver)
          /\ Len(fires) = 1
          /\ FireReturned("Done")
          /\ take_calls = 1
          /\ IsSome(yielded)
    /\ (OtherFlagsValid /\ value_of(flags, "output.mode") \notin ValidModes /\ Ended) =>
          /\ Len(fires) = 1
          /\ FireReturned("Done") => (panic_message = ModePanic /\ take_calls = 1)

C19_Witness ==
    /\ OtherFlagsValid
    /\ value_of(flags, "output.mode") = Some("yaml")
    /\ pc = "panicked"
    /\ panic_message = ModePanic
    /\ FireReturned("Done")
    /\ take_calls = 1

HasBadToken(s, IsGood(_)) == \E i \in 1..Len(Tokens(s)) : ~IsGood(Tokens(s)[i])
MalformedSpec ==
    \/ /\ ~ModulesAbsent
       /\ HasBadToken(Unwrap(value_of(flags, "oneliner.modules")), IsModuleToken)
    \/ HasBadToken(options_list_of(flags), IsOptionToken)
FailedWith(text) == fails = <<[code |-> 1, message |-> <<text>>]>>

\* C20 as stated: a run with both a missing input file and a malformed
\* module or option specification ends with "No file specified" and never
\* calls the parser.
C20_AsStated ==
    (FileAbsent /\ MalformedSpec /\ Ended) =>
        /\ FailedWith("No file specified")
        /\ parser_calls = <<>>

\* C20 amended: the checks are made in the order util.debugging,
\* oneliner.modules, oneliner.file, parsing.  A run with a missing input
\* file never calls the parser; with a malformed specification as well it
\* ends with "No file specified" when util.debugging is "true" or "false"
\* and oneliner.modules is present, with "no modules specified" when
\* oneliner.modules is absent, and in a panic when util.debugging is neither.
C20_CheckOrder ==
    /\ FileAbsent => (parser_calls = <<>> /\ parsed = None)
    /\ FailedWith("no modules specified") => (level_sets = 1 /\ input_file = None)
    /\ FailedWith("No file specified") =>
          (level_sets = 1 /\ IsSome(options_list) /\ ~ModulesAbsent)
    /\ parser_calls # <<>> =>
          (level_sets = 1 /\ IsSome(options_list) /\ IsSome(input_file))
    /\ (FileAbsent /\ MalformedSpec /\ Ended) =>
          CASE ~DebuggingValid -> pc = "panicked" /\ fails = <<>>
            [] ModulesAbsent   -> FailedWith("no modules specified")
            [] OTHER           -> FailedWith("No file specified")

C20_Witness ==
    /\ FileAbsent
    /\ MalformedSpec
    /\ ~ModulesAbsent
    /\ pc = "exited"
    /\ FailedWith("No file specified")
    /\ parser_calls = <<>>

====
